---- MODULE Spec2Model ----
(***************************************************************************)
(* Model of nature.py: the procedural soundscape renderer.                 *)
(*                                                                         *)
(* generate_environment(duration_sec, profile) allocates a zero buffer,    *)
(* routes the components "rain", "thunder", "birds", "campfire" to their   *)
(* generators, sums the returned buffers, peak-normalizes and quantizes    *)
(* to int16.  The button handler calls it with a catalog profile and       *)
(* duration * 60 seconds.                                                  *)
(*                                                                         *)
(* Number representation.                                                  *)
(*  - Parameters of a profile (0.8, 0.05, 2.0 ...) are held in thousandths *)
(*    (800, 50, 2000); int(x * y) is the truncated product.                *)
(*  - A float sample is an integer count of a fixed small unit, or NaN.    *)
(*    Division truncates toward zero where IEEE division rounds; 0/0 is    *)
(*    NaN, NaN is absorbing in + and /, and max() of a buffer holding a    *)
(*    NaN is NaN, as numpy computes them.                                  *)
(*  - sample_rate is scaled down to SampleRate samples per second so that  *)
(*    buffers are explicit sequences; every length in the code is a        *)
(*    multiple of sample_rate and scales with it.                          *)
(*  - numpy's and Python's process-wide random generators are additive     *)
(*    congruential generators of period RngPeriod: the j-th draw from      *)
(*    state s is (s + j) % RngPeriod, mapped to the drawn distribution.    *)
(*  - sin and exp in generate_birds are piecewise-rational surrogates      *)
(*    with the same sign pattern, the same zero at t = 0 and the same      *)
(*    bound 1.                                                             *)
(***************************************************************************)
EXTENDS Integers, Sequences, FiniteSets, TLC

VARIABLES
    pc,            \* position in the script / in generate_environment
    selected_env,  \* the catalog name the button rendered ("none": a direct call)
    profile,       \* profile["components"]: ordered <<[key, params], ...>>
    duration_sec,  \* argument duration_sec
    audio,         \* the accumulator `audio` (<<>> before line 128)
    np_rng,        \* state of the numpy global generator
    py_rng,        \* state of the `random` module's generator
    nan_cast,      \* history: what the int16 cast of NaN yielded in this render
    calls,         \* history: the steps generate_environment has executed
    returned,      \* history: the buffer each generator returned (<<>> if none)
    stamps,        \* history: <<start, len(boom)>> of every thunder boom stamped
    summed,        \* history: `audio` as it entered line 148
    out,           \* the int16 buffer returned (<<>> before line 150)
    err,           \* the exception that ended the render ("none" if none)
    np_rng0,       \* history: np_rng when the render started
    py_rng0        \* history: py_rng when the render started

vars == <<pc, selected_env, profile, duration_sec, audio, np_rng, py_rng, nan_cast, calls,
          returned, stamps, summed, out, err, np_rng0, py_rng0>>

----------------------------------------------------------------------------
(* Bounds of the model *)

SampleRate == 2      \* samples per second (44100 in the code, scaled)
MaxDuration == 2     \* direct calls use duration_sec in 1..MaxDuration
RngPeriod == 3       \* period of the two random generators

(* Program constants *)

Ceiling == 32767         \* audio * 32767
SecondsPerMinute == 60   \* duration * 60
MinMinutes == 1          \* st.slider("Duration (minutes)", 1, 180, 30)
RainLevel == 500         \* 0.5 * rain / max, in thousandths
ThunderLevel == 700      \* 0.7 * thunder / max
BirdsLevel == 1000       \* birds / max
FireLevel == 600         \* 0.6 * fire / max
Milli == 1000            \* parameters and normalized samples are thousandths

----------------------------------------------------------------------------
(* Floats *)

NaN == -(2^30)
IsNaN(v) == v = NaN
Abs(v) == IF v < 0 THEN -v ELSE v
Max(a, b) == IF a >= b THEN a ELSE b
Min(a, b) == IF a <= b THEN a ELSE b

\* a / b truncated toward zero, b > 0
TruncDiv(a, b) == IF a >= 0 THEN a \div b ELSE -((-a) \div b)

\* int(x * y) for x in thousandths and a non-negative integer y
IntProd(x, y) == TruncDiv(x * y, Milli)

FAdd(a, b) == IF IsNaN(a) \/ IsNaN(b) THEN NaN ELSE a + b

Zeros(n) == [i \in 1..n |-> 0]

\* len(np.linspace(start, stop, num))
LinspaceLen(num) == num

\* max(|buf[lo]|, ..., |buf[hi]|), NaN if any of them is NaN; the range is
\* halved so that the evaluation depth stays logarithmic in its length
RECURSIVE MaxAbsIn(_, _, _)
MaxAbsIn(buf, lo, hi) ==
    IF lo = hi THEN (IF IsNaN(buf[lo]) THEN NaN ELSE Abs(buf[lo]))
    ELSE LET mid == (lo + hi) \div 2
             l   == MaxAbsIn(buf, lo, mid)
             r   == MaxAbsIn(buf, mid + 1, hi)
         IN  IF IsNaN(l) \/ IsNaN(r) THEN NaN ELSE Max(l, r)

\* np.max(np.abs(buf)) of a non-empty buffer
MaxAbs(buf) == MaxAbsIn(buf, 1, Len(buf))

\* level * buf / m elementwise, the result counted in thousandths of the
\* peak: x / 0 only occurs with m = max|buf| = 0, where every x is 0, so
\* the quotient by zero is always 0/0 = NaN.
ScaleToPeak(level, buf, m) ==
    [i \in 1..Len(buf) |->
        IF IsNaN(buf[i]) \/ IsNaN(m) \/ m = 0 THEN NaN
        ELSE TruncDiv(level * buf[i], m)]

----------------------------------------------------------------------------
(* Random generators *)

\* the j-th draw (j = 0, 1, ...) from generator state s
Draw(s, j) == (s + j) % RngPeriod

\* the generator state after n draws
Advance(s, n) == (s + n) % RngPeriod

\* a standard-normal draw: never exactly zero, both signs
Gauss(x) == IF x % 2 = 0 THEN x + 1 ELSE -x

\* np.random.randn(n) drawn from state s
Randn(n, s) == [i \in 1..n |-> Gauss(Draw(s, i - 1))]

\* np.random.poisson(lam, n) drawn from state s; lam in thousandths
Poisson(lam, n, s) ==
    [i \in 1..n |-> Max(0, TruncDiv(lam, Milli) + Draw(s, i - 1) - (RngPeriod \div 2))]

\* random.randint(a, b) for a <= b, from the uniform draw u
RandInt(a, b, u) == a + ((b - a + 1) * u) \div RngPeriod

----------------------------------------------------------------------------
(* np.convolve(a, b, mode='same') *)

\* sum of a[i] * b[k - i + 1] for i in lo..hi (range halved as in MaxAbsIn)
RECURSIVE ConvSum(_, _, _, _, _)
ConvSum(a, b, k, lo, hi) ==
    IF lo > hi THEN 0
    ELSE IF lo = hi THEN a[lo] * b[k - lo + 1]
    ELSE LET mid == (lo + hi) \div 2
         IN  ConvSum(a, b, k, lo, mid) + ConvSum(a, b, k, mid + 1, hi)

\* element k (1-based) of the full convolution
ConvFull(a, b, k) ==
    ConvSum(a, b, k, Max(1, k - Len(b) + 1), Min(Len(a), k))

\* mode='full' in place of mode='same'
ConvolveFull(a, b) ==
    [j \in 1..(Len(a) + Len(b) - 1) |-> ConvFull(a, b, j)]

ConvolveSame(a, b) ==
    LET off == (Min(Len(a), Len(b)) - 1) \div 2
    IN  [j \in 1..Max(Len(a), Len(b)) |-> ConvFull(a, b, j + off)]

----------------------------------------------------------------------------
(* Generators.  Each returns [buf, np, py, stamps, err]: the returned      *)
(* buffer, the generator states it leaves, the booms it stamped and the    *)
(* exception it raised ("none" when it returned).                          *)

Returned(buf, np, py) ==
    [buf |-> buf, np |-> np, py |-> py, stamps |-> <<>>, err |-> "none"]

\* noise * intensity, in hundredths of a standard deviation
ScaleNoise(noise, intensity) ==
    [i \in 1..Len(noise) |-> TruncDiv(noise[i] * intensity, 10)]

\* the noise-floor generators: generate_rain and generate_fire differ in
\* the Poisson mean (base + slope * texture) and the reference level
NoiseTexture(level, base, slope, intensity, texture, duration, np, py) ==
    LET n       == LinspaceLen(SampleRate * duration)
        noise   == ScaleNoise(Randn(n, np), intensity)
        pattern == Poisson(base * Milli + slope * texture, n, Advance(np, n))
        sig     == ConvolveSame(noise, pattern)
    IN  Returned(ScaleToPeak(level, sig, MaxAbs(sig)), Advance(np, 2 * n), py)

generate_rain(intensity, drop_size, duration, np, py) ==
    NoiseTexture(RainLevel, 20, 50, intensity, drop_size, duration, np, py)

generate_fire(crackle_intensity, embers, duration, np, py) ==
    NoiseTexture(FireLevel, 10, 20, crackle_intensity, embers, duration, np, py)

\* boom = randn(n) * linspace(1, 0, n): sample i (0-based) is the draw
\* times (n-1-i)/(n-1), counted in units of 1/(n-1); linspace(1, 0, 1) = [1]
Boom(n, np) ==
    LET noise == Randn(n, np)
    IN  [i \in 1..n |-> IF n = 1 THEN noise[i] ELSE noise[i] * (n - i)]

\* len(buf[start : start + n]) for 0 <= start: the slice is clipped to the buffer
SliceLen(buflen, start, n) == Max(0, Min(buflen, start + n) - Min(buflen, start))

\* buf[start : start + len(boom)] += boom (start 0-based), operand shapes equal
StampInto(buf, start, boom) ==
    [i \in 1..Len(buf) |->
        IF i > start /\ i <= start + Len(boom) THEN FAdd(buf[i], boom[i - start])
        ELSE buf[i]]

\* the loop of generate_thunder, `left` iterations to go
RECURSIVE ThunderLoop(_, _, _, _, _, _)
ThunderLoop(left, blen, thunder, np, py, st) ==
    IF left = 0
    THEN [buf |-> thunder, np |-> np, py |-> py, stamps |-> st, err |-> "none"]
    ELSE IF Len(thunder) - blen < 0
    THEN \* random.randint(0, negative): empty range
         [buf |-> <<>>, np |-> np, py |-> py, stamps |-> st, err |-> "ValueError"]
    ELSE LET start == RandInt(0, Len(thunder) - blen, Draw(py, 0))
             boom  == Boom(blen, np)
             sl    == SliceLen(Len(thunder), start, blen)
         IN  IF sl # blen /\ blen # 1
             THEN \* operands could not be broadcast together
                  [buf |-> <<>>, np |-> Advance(np, blen), py |-> Advance(py, 1),
                   stamps |-> st, err |-> "ValueError"]
             ELSE ThunderLoop(left - 1, blen,
                              StampInto(thunder, start, IF sl = blen THEN boom ELSE <<>>),
                              Advance(np, blen), Advance(py, 1),
                              Append(st, <<start, blen>>))

generate_thunder(frequency, boom_duration, duration, np, py) ==
    LET n         == LinspaceLen(SampleRate * duration)
        num_booms == IntProd(frequency, duration)
        blen      == IntProd(boom_duration, SampleRate)
        r         == ThunderLoop(num_booms, blen, Zeros(n), np, py, <<>>)
    IN  IF r.err # "none" THEN r
        ELSE [r EXCEPT !.buf = ScaleToPeak(ThunderLevel, r.buf, MaxAbs(r.buf))]

\* sin(2 pi freq t[i]) counted in tenths, freq in tenths of a hertz and
\* t[i] = i * duration / (n - 1): a triangle wave of the same period and
\* sign, 0 at t = 0 and nowhere else
Tone(freq, i, duration, n) ==
    IF i = 0 THEN 0
    ELSE LET d    == 10 * (n - 1)
             ph   == ((freq % d) * ((i * duration) % d)) % d
             q    == (4 * ph) \div d
             frac == (10 * (4 * ph - q * d)) \div d
             v    == CASE q = 0 -> frac
                       [] q = 1 -> 10 - frac
                       [] q = 2 -> -frac
                       [] OTHER -> frac - 10
         IN  IF v = 0 THEN 1 ELSE v

\* exp(-5 t[i] / duration_call) counted in hundredths, duration_call in
\* milliseconds: 1 / (1 + 5 t / duration_call), which is 1 at t = 0,
\* decreasing and underflows to 0 for large t
Decay(dcall, i, duration, n) ==
    IF i = 0 THEN 100
    ELSE (100 * dcall * (n - 1)) \div (dcall * (n - 1) + 5 * Milli * i * duration)

\* freq = 1000 + 2000 * random.random() * pitch_variance of the k-th call
\* (k = 0, 1, ...), in tenths of a hertz
CallFreq(k, pitch_variance, py) ==
    10000 + (20000 * Draw(py, 2 * k) * pitch_variance) \div (RngPeriod * Milli)

\* duration_call = 0.1 + 0.3 * random.random() of the k-th call, in milliseconds
CallDuration(k, py) == 100 + (300 * Draw(py, 2 * k + 1)) \div RngPeriod

\* sample i (0-based) of bird * 0.2 for a call of pitch freq and length dcall
BirdCall(freq, dcall, i, duration, n) ==
    2 * Tone(freq, i, duration, n) * Decay(dcall, i, duration, n)

\* sample i of the sum of the calls lo..hi (1-based; range halved as in
\* MaxAbsIn), freqs and dcalls holding each call's two draws
RECURSIVE BirdSum(_, _, _, _, _, _, _)
BirdSum(lo, hi, i, freqs, dcalls, duration, n) ==
    IF lo > hi THEN 0
    ELSE IF lo = hi THEN BirdCall(freqs[lo], dcalls[lo], i, duration, n)
    ELSE LET mid == (lo + hi) \div 2
         IN  BirdSum(lo, mid, i, freqs, dcalls, duration, n)
             + BirdSum(mid + 1, hi, i, freqs, dcalls, duration, n)

generate_birds(density, pitch_variance, duration, np, py) ==
    LET n         == LinspaceLen(SampleRate * duration)
        num_calls == IntProd(density, duration * 10)
        freqs     == [k \in 1..num_calls |-> CallFreq(k - 1, pitch_variance, py)]
        dcalls    == [k \in 1..num_calls |-> CallDuration(k - 1, py)]
        birds     == [i \in 1..n |->
                        BirdSum(1, num_calls, i - 1, freqs, dcalls, duration, n)]
    IN  Returned(ScaleToPeak(BirdsLevel, birds, MaxAbs(birds)), np,
                 Advance(py, 2 * num_calls))

----------------------------------------------------------------------------
(* Profiles *)

C(key, params) == [key |-> key, params |-> params]

NoParams == <<>>

Wind(speed, gust) == C("wind", [speed |-> speed, gust_frequency |-> gust])

\* NATURE_SOUNDS[name]["components"], in declaration order
NATURE_SOUNDS ==
    [Thunderstorm |->
        << C("rain", [intensity |-> 800, drop_size |-> 600]),
           C("thunder", [frequency |-> 100, boom_duration |-> 2000]),
           Wind(900, 500),
           C("lightning", [crackle_intensity |-> 700]) >>,
     HeavyRain |->
        << C("rain", [intensity |-> 1000, drop_size |-> 800]),
           C("thunder", [frequency |-> 50, boom_duration |-> 1000]),
           Wind(400, 200) >>,
     BirdsongMeadow |->
        << C("birds", [density |-> 900, pitch_variance |-> 700]),
           Wind(300, 100),
           C("stream", [flow_rate |-> 500, bubbles |-> 400]) >>,
     OceanWaves |->
        << C("waves", [interval |-> 4000, crash_intensity |-> 700]),
           C("seagulls", [density |-> 100]),
           Wind(600, 300) >>,
     StarryNight |->
        << C("crickets", [density |-> 800, rhythm |-> 600]),
           Wind(200, 50),
           C("stars", [twinkle_frequency |-> 100, intensity |-> 400]) >>,
     QuietNight |->
        << Wind(100, 20),
           C("owls", [frequency |-> 30, pitch |-> 500]),
           C("rustling_leaves", [intensity |-> 300]) >>,
     AmbientForest |->
        << Wind(500, 200),
           C("birds", [density |-> 400, pitch_variance |-> 600]),
           C("water_drips", [reverb |-> 700, interval |-> 500]) >>,
     CampfireNight |->
        << C("campfire", [crackle_intensity |-> 800, smoke |-> 500]),
           C("crickets", [density |-> 700, rhythm |-> 600]),
           Wind(300, 100) >>,
     CozyFireplace |->
        << C("fireplace", [crackle_intensity |-> 900, embers |-> 600]),
           Wind(100, 50),
           C("wood_creaks", [frequency |-> 20, intensity |-> 400]) >>]

\* profiles a caller of generate_environment may pass besides the catalog's
CallerProfiles ==
    [Empty |-> <<>>,
     ThunderNoParams |-> << C("thunder", NoParams) >>,
     RainThenThunderNoParams |->
        << C("rain", [intensity |-> 500, drop_size |-> 500]),
           C("thunder", NoParams) >>,
     AllReversed |->
        << C("campfire", [crackle_intensity |-> 800, smoke |-> 500]),
           C("birds", [density |-> 100, pitch_variance |-> 700]),
           C("thunder", [frequency |-> 1000, boom_duration |-> 500]),
           C("rain", [intensity |-> 800, drop_size |-> 600]) >>,
     LongBoom |-> << C("thunder", [frequency |-> 1000, boom_duration |-> 2000]) >>,
     DryRain |-> << C("rain", [intensity |-> 0, drop_size |-> 500]) >>,
     SparseBirds |-> << C("birds", [density |-> 50, pitch_variance |-> 500]) >>]

\* `key in components`
HasKey(components, key) == \E i \in DOMAIN components : components[i].key = key

\* components[key]
Params(components, key) ==
    components[CHOOSE i \in DOMAIN components : components[i].key = key].params

----------------------------------------------------------------------------
(* generate_environment, one step at a time.  A render state is the record *)
(* [pc, audio, np, py, calls, returned, stamps, summed, out, err].         *)

\* the thunder block placed before the rain block
KindPriorityThunderFirst == <<"thunder", "rain", "birds", "campfire">>

\* the order of the four `if "<kind>" in profile["components"]` blocks
KindPriority == <<"rain", "thunder", "birds", "campfire">>

RoutedKinds == {KindPriority[i] : i \in DOMAIN KindPriority}

\* the block that follows kind's block
NextStage(kind) ==
    LET i == CHOOSE j \in DOMAIN KindPriority : KindPriority[j] = kind
    IN  IF i < Len(KindPriority) THEN KindPriority[i + 1] ELSE "normalize"

\* the keys params[...] is subscripted with, in evaluation order
ArgNames(kind) ==
    CASE kind = "rain"     -> <<"intensity", "drop_size">>
      [] kind = "thunder"  -> <<"frequency", "boom_duration">>
      [] kind = "birds"    -> <<"density", "pitch_variance">>
      [] kind = "campfire" -> <<"crackle_intensity", "smoke">>

\* the generator call of kind's block
Generate(kind, p, duration, np, py) ==
    CASE kind = "rain" ->
            generate_rain(p["intensity"], p["drop_size"], duration, np, py)
      [] kind = "thunder" ->
            generate_thunder(p["frequency"], p["boom_duration"], duration, np, py)
      [] kind = "birds" ->
            generate_birds(p["density"], p["pitch_variance"], duration, np, py)
      [] kind = "campfire" ->
            generate_fire(p["crackle_intensity"], p["smoke"], duration, np, py)

Fresh(np, py) ==
    [pc |-> "alloc", audio |-> <<>>, np |-> np, py |-> py, calls |-> <<>>,
     returned |-> [k \in RoutedKinds |-> <<>>], stamps |-> <<>>,
     summed |-> <<>>, out |-> <<>>, err |-> "none"]

\* lines 126-128
AllocStep(s, duration) ==
    [s EXCEPT !.pc = KindPriority[1],
              !.audio = Zeros(LinspaceLen(SampleRate * duration)),
              !.calls = Append(@, "alloc")]

\* only the first declared component is looked at
RoutesFirstOnly(components, kind) ==
    components # <<>> /\ components[1].key = kind

\* `kind in profile["components"]`
Routes(components, kind) == HasKey(components, kind)

\* audio += buf
AddInto(acc, buf) ==
    [i \in 1..Len(acc) |-> FAdd(acc[i], IF Len(buf) = 1 THEN buf[1] ELSE buf[i])]

\* one routing block (lines 131-133, 135-137, 139-141, 143-145)
RouteStep(s, kind, components, duration) ==
    IF ~Routes(components, kind) THEN [s EXCEPT !.pc = NextStage(kind)]
    ELSE
      LET p == Params(components, kind)
      IN  IF \E a \in DOMAIN ArgNames(kind) : ArgNames(kind)[a] \notin DOMAIN p
          THEN [s EXCEPT !.pc = "error", !.err = "KeyError"]
          ELSE
            LET g == Generate(kind, p, duration, s.np, s.py)
                t == [s EXCEPT !.np = g.np, !.py = g.py,
                               !.calls = Append(@, kind),
                               !.stamps = @ \o g.stamps]
            IN  IF g.err # "none"
                THEN [t EXCEPT !.pc = "error", !.err = g.err]
                ELSE IF Len(g.buf) # Len(s.audio) /\ Len(g.buf) # 1
                THEN \* operands could not be broadcast together
                     [t EXCEPT !.pc = "error", !.err = "ValueError",
                               !.returned[kind] = g.buf]
                ELSE [t EXCEPT !.pc = NextStage(kind),
                               !.returned[kind] = g.buf,
                               !.audio = AddInto(s.audio, g.buf)]

\* audio / np.max(np.abs(audio)), in thousandths
Normalize(buf) == ScaleToPeak(Milli, buf, MaxAbs(buf))

\* x.astype(np.int16): truncation toward zero, 16-bit wraparound; the cast
\* of a NaN is undefined in C and yields whatever the build yields
ToInt16(x, nc) ==
    IF IsNaN(x) THEN nc ELSE ((x + 32768) % 65536) - 32768

\* (audio * 32767).astype(np.int16), audio in thousandths
Quantize(buf, nc) ==
    [i \in 1..Len(buf) |->
        ToInt16(IF IsNaN(buf[i]) THEN NaN ELSE TruncDiv(buf[i] * Ceiling, Milli), nc)]

\* line 148
NormalizeStep(s) ==
    [s EXCEPT !.pc = "quantize", !.summed = s.audio,
              !.audio = Normalize(s.audio), !.calls = Append(@, "normalize")]

\* lines 149-150
QuantizeStep(s, nc) ==
    [s EXCEPT !.pc = "done", !.out = Quantize(s.audio, nc),
              !.calls = Append(@, "quantize")]

\* the step generate_environment takes from render state s
Step(s, components, duration, nc) ==
    CASE s.pc = "alloc" -> AllocStep(s, duration)
      [] s.pc \in RoutedKinds -> RouteStep(s, s.pc, components, duration)
      [] s.pc = "normalize" -> NormalizeStep(s)
      [] s.pc = "quantize" -> QuantizeStep(s, nc)

\* generate_environment(duration, components) run to its end from state s
RECURSIVE Run(_, _, _, _)
Run(s, components, duration, nc) ==
    IF s.pc \in {"done", "error"} THEN s
    ELSE Run(Step(s, components, duration, nc), components, duration, nc)

----------------------------------------------------------------------------
(* The state machine *)

\* outcomes of casting NaN to int16, which C leaves undefined: 0 (the low
\* half of x86's integer indefinite, ARM's saturating convert) or -32768
\* (the 16-bit indefinite)
NaNCasts == {0, -32768}

HasNaN(buf) == \E i \in DOMAIN buf : IsNaN(buf[i])

Cur ==
    [pc |-> pc, audio |-> audio, np |-> np_rng, py |-> py_rng, calls |-> calls,
     returned |-> returned, stamps |-> stamps, summed |-> summed, out |-> out,
     err |-> err]

Become(s) ==
    /\ pc' = s.pc
    /\ audio' = s.audio
    /\ np_rng' = s.np
    /\ py_rng' = s.py
    /\ calls' = s.calls
    /\ returned' = s.returned
    /\ stamps' = s.stamps
    /\ summed' = s.summed
    /\ out' = s.out
    /\ err' = s.err

Init ==
    /\ pc = "idle"
    /\ selected_env = "none"
    /\ profile = <<>>
    /\ duration_sec = 0
    /\ np_rng \in 0..(RngPeriod - 1)
    /\ py_rng \in 0..(RngPeriod - 1)
    /\ nan_cast = 0
    /\ np_rng0 = np_rng
    /\ py_rng0 = py_rng
    /\ audio = <<>>
    /\ calls = <<>>
    /\ returned = [k \in RoutedKinds |-> <<>>]
    /\ stamps = <<>>
    /\ summed = <<>>
    /\ out = <<>>
    /\ err = "none"

\* entry into generate_environment(duration, components)
Enter(env, components, duration) ==
    /\ selected_env' = env
    /\ profile' = components
    /\ duration_sec' = duration
    /\ np_rng0' = np_rng
    /\ py_rng0' = py_rng
    /\ Become(Fresh(np_rng, py_rng))
    /\ nan_cast' = 0

\* a caller invokes generate_environment directly
CallDirect ==
    /\ pc = "idle"
    /\ \E d \in 1..MaxDuration :
          \/ \E name \in DOMAIN NATURE_SOUNDS : Enter("none", NATURE_SOUNDS[name], d)
          \/ \E name \in DOMAIN CallerProfiles : Enter("none", CallerProfiles[name], d)

\* the "Generate Environment" button (lines 175-178), with the duration
\* slider at its minimum
ButtonClick ==
    /\ pc = "idle"
    /\ \E env \in DOMAIN NATURE_SOUNDS :
          Enter(env, NATURE_SOUNDS[env], MinMinutes * SecondsPerMinute)

\* what the steps of a render leave alone
frame == <<selected_env, profile, duration_sec, np_rng0, py_rng0>>

Allocate ==
    /\ pc = "alloc"
    /\ Become(AllocStep(Cur, duration_sec))
    /\ UNCHANGED <<frame, nan_cast>>

RouteRain ==
    /\ pc = "rain"
    /\ Become(RouteStep(Cur, "rain", profile, duration_sec))
    /\ UNCHANGED <<frame, nan_cast>>

RouteThunder ==
    /\ pc = "thunder"
    /\ Become(RouteStep(Cur, "thunder", profile, duration_sec))
    /\ UNCHANGED <<frame, nan_cast>>

RouteBirds ==
    /\ pc = "birds"
    /\ Become(RouteStep(Cur, "birds", profile, duration_sec))
    /\ UNCHANGED <<frame, nan_cast>>

RouteCampfire ==
    /\ pc = "campfire"
    /\ Become(RouteStep(Cur, "campfire", profile, duration_sec))
    /\ UNCHANGED <<frame, nan_cast>>

NormalizeAudio ==
    /\ pc = "normalize"
    /\ Become(NormalizeStep(Cur))
    /\ UNCHANGED <<frame, nan_cast>>

QuantizeAudio ==
    /\ pc = "quantize"
    /\ \E nc \in (IF HasNaN(audio) THEN NaNCasts ELSE {0}) :
          /\ Become(QuantizeStep(Cur, nc))
          /\ nan_cast' = nc
    /\ UNCHANGED frame

\* the render is over (returned or raised); the script waits for the next run
Rerun ==
    /\ pc \in {"done", "error"}
    /\ selected_env' = "none"
    /\ profile' = <<>>
    /\ duration_sec' = 0
    /\ np_rng0' = np_rng
    /\ py_rng0' = py_rng
    /\ Become([Fresh(np_rng, py_rng) EXCEPT !.pc = "idle"])
    /\ nan_cast' = 0

Next ==
    \/ CallDirect
    \/ ButtonClick
    \/ Allocate
    \/ RouteRain
    \/ RouteThunder
    \/ RouteBirds
    \/ RouteCampfire
    \/ NormalizeAudio
    \/ QuantizeAudio
    \/ Rerun

Spec == Init /\ [][Next]_vars

----------------------------------------------------------------------------
(* Properties *)

BufferLen == duration_sec * SampleRate

Invoked(kind) == \E i \in DOMAIN calls : calls[i] = kind

AllZero(buf) == \A i \in DOMAIN buf : buf[i] = 0

NoRoutedKey == \A k \in {"rain", "thunder", "birds", "campfire"} : ~HasKey(profile, k)

\* the component has every parameter its generator is called with
Complete(kind) ==
    /\ HasKey(profile, kind)
    /\ \A a \in DOMAIN ArgNames(kind) : ArgNames(kind)[a] \in DOMAIN Params(profile, kind)

\* int(frequency * duration) of the render's thunder component
NumBooms == IntProd(Params(profile, "thunder")["frequency"], duration_sec)

\* int(density * duration * 10) of the render's birds component
NumCalls == IntProd(Params(profile, "birds")["density"], duration_sec * 10)

\* C1: a render of a profile with none of the keys rain, thunder, birds,
\* campfire skips peak normalization (the buffer entering quantization is the
\* all-zero sum, no NaN) and returns an all-zero buffer of length
\* duration_sec * sample_rate.
C1_SilentRenderIsZero ==
    (NoRoutedKey /\ pc \in {"quantize", "done"}) =>
        /\ Len(audio) = BufferLen
        /\ AllZero(audio)
        /\ pc = "done" => (Len(out) = BufferLen /\ AllZero(out))

\* C2: when the summed buffer is not entirely zero, every returned sample
\* lies in [-32767, 32767] and at least one has absolute value 32767.
C2_PeakAtCeiling ==
    (pc = "done" /\ ~AllZero(summed)) =>
        /\ \A i \in DOMAIN out : out[i] >= -Ceiling /\ out[i] <= Ceiling
        /\ \E i \in DOMAIN out : Abs(out[i]) = Ceiling

\* the finite case of C2: a summed buffer free of NaN and not entirely zero
\* is returned with every sample in range and the peak at the ceiling
FiniteSumPeaksAtCeiling ==
    (pc = "done" /\ ~HasNaN(summed) /\ ~AllZero(summed)) =>
        /\ \A i \in DOMAIN out : out[i] >= -Ceiling /\ out[i] <= Ceiling
        /\ \E i \in DOMAIN out : Abs(out[i]) = Ceiling

\* C3: a render that ends in the missing-parameter error has allocated no
\* accumulator and invoked no generator.
C3_FailsBeforeAnyWork ==
    (pc = "error" /\ err = "KeyError") =>
        /\ audio = <<>>
        /\ calls = <<>>

\* keys generate_environment does not route, with and without parameters
ExtraComponents ==
    << C("aurora", NoParams),
       C("geyser", [frequency |-> 1000, intensity |-> 1000]) >>

\* the outcome of rendering `components` from the state the render started in
Outcome(components) ==
    LET r == Run(Fresh(np_rng0, py_rng0), components, duration_sec, nan_cast)
    IN  [pc |-> r.pc, out |-> r.out, err |-> r.err]

\* C4: with the same random draws, a profile with one more component under
\* an unrouted key (put first or last, with or without parameters) renders
\* to the same returned buffer, and to an error only if the profile itself
\* does.
C4_UnroutedKeyIgnored ==
    pc \in {"done", "error"} =>
        /\ Outcome(<<ExtraComponents[1]>> \o profile) = [pc |-> pc, out |-> out, err |-> err]
        /\ Outcome(Append(profile, ExtraComponents[2])) = [pc |-> pc, out |-> out, err |-> err]

\* a completed render of a profile with routed and unrouted keys
C4_Witness ==
    /\ pc = "done"
    /\ Invoked("rain") /\ Invoked("thunder")
    /\ HasKey(profile, "lightning")
    /\ \E i \in DOMAIN out : out[i] = Ceiling

\* the kinds the phenomenon enumeration names, by their catalog keys
SpecKinds ==
    {"wind", "rain", "thunder", "waterfall", "crickets", "birds", "campfire", "fireplace"}

\* C5: in a completed render, a kind of the enumeration has had its
\* generator invoked if and only if its key is in the profile.
C5_IncludedIffPresent ==
    pc = "done" => \A k \in SpecKinds : HasKey(profile, k) <=> Invoked(k)

\* C6: a generator with an event count of zero returns an all-zero buffer
\* of full length (generate_thunder with int(frequency * duration) = 0,
\* generate_birds with int(density * duration * 10) = 0).
C6_ZeroEventsIsSilence ==
    /\ (Invoked("thunder") /\ NumBooms = 0) => returned["thunder"] = Zeros(BufferLen)
    /\ (Invoked("birds") /\ NumCalls = 0) => returned["birds"] = Zeros(BufferLen)

\* C7: the accumulator and every buffer a generator returned have length
\* duration_sec * sample_rate.
C7_EqualLengths ==
    pc \notin {"idle", "alloc"} =>
        /\ Len(audio) = BufferLen
        /\ \A k \in DOMAIN returned :
              returned[k] # <<>> => Len(returned[k]) = BufferLen

\* a render in which all four generators have returned
C7_Witness ==
    /\ pc = "normalize"
    /\ duration_sec > 1
    /\ \A k \in DOMAIN returned : returned[k] # <<>>

IsPrefix(a, b) == Len(a) <= Len(b) /\ \A i \in DOMAIN a : a[i] = b[i]

\* alloc, the generators of the profile's keys in the order rain, thunder,
\* birds, campfire, then normalize, then quantize
ExpectedCalls ==
    LET Enabled(k) == HasKey(profile, k)
    IN  <<"alloc">> \o SelectSeq(<<"rain", "thunder", "birds", "campfire">>, Enabled)
        \o <<"normalize", "quantize">>

\* C8: the steps of a render are taken in the order alloc, rain, thunder,
\* birds, campfire, normalize, quantize whatever the order of the profile's
\* keys; a render that returns has taken each step of its profile exactly
\* once.
C8_FixedOrder ==
    /\ pc # "idle" => IsPrefix(calls, ExpectedCalls)
    /\ pc = "done" => calls = ExpectedCalls

\* a completed render of a profile whose keys are declared in reverse order
C8_Witness ==
    /\ pc = "done"
    /\ Len(profile) = 4
    /\ profile[1].key = "campfire" /\ profile[4].key = "rain"
    /\ Len(calls) = 7

\* C9: when generate_thunder was invoked with at least one boom it returned
\* (no error, also for a boom longer than the buffer) and every boom was
\* stamped at a start offset inside the buffer.
C9_BoomsPlaced ==
    (Invoked("thunder") /\ NumBooms >= 1) =>
        /\ returned["thunder"] # <<>>
        /\ Len(stamps) = NumBooms
        /\ \A j \in DOMAIN stamps : stamps[j][1] >= 0 /\ stamps[j][1] < BufferLen

\* the fitting case of C9: booms no longer than the buffer are all stamped,
\* each wholly inside the buffer
FittingBoomsInside ==
    (Invoked("thunder") /\ NumBooms >= 1
       /\ IntProd(Params(profile, "thunder")["boom_duration"], SampleRate) <= BufferLen) =>
        /\ returned["thunder"] # <<>>
        /\ Len(stamps) = NumBooms
        /\ \A j \in DOMAIN stamps :
              stamps[j][1] >= 0 /\ stamps[j][1] + stamps[j][2] <= BufferLen

\* C10: a render started by the button reaches normalization with at
\* least one generator's output summed into the accumulator.
C10_CatalogRoutesSomething ==
    (selected_env # "none" /\ pc = "normalize") =>
        \E k \in {"rain", "thunder", "birds", "campfire"} :
            HasKey(NATURE_SOUNDS[selected_env], k) /\ Invoked(k)

====
